---- MODULE Spec2Model ----
(***************************************************************************)
(* Scan & Pick backend (src/index.js): an express server that proxies      *)
(* three REST endpoints to the Shopify Admin GraphQL API.                  *)
(*                                                                         *)
(* Strings the code computes with (ids, query-string values, the draft     *)
(* search query) are sequences of one-character strings, so that           *)
(* startsWith, template concatenation, join and Number() are computed.     *)
(* Strings the code only passes around (error messages, GraphQL document   *)
(* names, upstream node ids) are TLA+ strings.                             *)
(* A JavaScript value that may be undefined/null is a sequence of length   *)
(* at most one: <<>> is undefined/null, <<x>> is the value x.              *)
(***************************************************************************)
EXTENDS Integers, Sequences, FiniteSets, TLC

VARIABLES
    pc,        \* per request: "idle", "awaiting" (suspended in await axios.post),
               \* "settled" (the axios promise has settled), "done" (response sent),
               \* "crashed" (an exception left the handler)
    req,       \* per request: the HTTP input the handler read
    calls,     \* per request: the upstream calls (axios.post) it has issued, in order
    outcome,   \* per request: how its axios promise settled
    resp       \* per request: the responses sent, in order

vars == <<pc, req, calls, outcome, resp>>

----------------------------------------------------------------------------
(* Bounds *)

NumReqs == 2        \* concurrent requests
MaxIdLen == 2       \* characters of a caller-supplied id after its prefix
MaxDateLen == 1     \* characters of a since / until value
MaxFirstLen == 3    \* characters of a first value
MaxEdges == 2       \* order edges in a listing reply
MaxLines == 1       \* line items returned per order
MaxErrs == 2        \* userErrors in a completion reply

Slots == 1..NumReqs

----------------------------------------------------------------------------
(* Values *)

None == <<>>
Some(x) == <<x>>

StrsUpTo(A, n) == UNION {[1..k -> A] : k \in 0..n}

StartsWith(s, p) == Len(s) >= Len(p) /\ SubSeq(s, 1, Len(p)) = p

RECURSIVE Join(_, _)
Join(parts, sep) ==
    IF parts = <<>> THEN <<>>
    ELSE IF Len(parts) = 1 THEN parts[1]
    ELSE parts[1] \o sep \o Join(Tail(parts), sep)

Digits == <<"0", "1", "2", "3", "4", "5", "6", "7", "8", "9">>

DigitVal(c) == (CHOOSE i \in 1..10 : Digits[i] = c) - 1

IsDigit(c) == \E i \in 1..10 : Digits[i] = c

RECURSIVE DigitsVal(_)
DigitsVal(s) ==
    IF s = <<>> THEN 0
    ELSE 10 * DigitsVal(SubSeq(s, 1, Len(s) - 1)) + DigitVal(s[Len(s)])

RECURSIVE NatToStr(_)
NatToStr(n) ==
    IF n < 10 THEN <<Digits[n + 1]>>
    ELSE NatToStr(n \div 10) \o <<Digits[(n % 10) + 1]>>

\* Number(x) for x undefined or a string: [nan, v]
Number(x) ==
    IF x = None THEN [nan |-> TRUE, v |-> 0]
    ELSE LET s == x[1]
             body == IF s # <<>> /\ s[1] \in {"-", "+"} THEN Tail(s) ELSE s
             signed == body # s
             ok == IF signed THEN body # <<>> /\ \A i \in 1..Len(body) : IsDigit(body[i])
                   ELSE \A i \in 1..Len(body) : IsDigit(body[i])
         IN IF ~ok THEN [nan |-> TRUE, v |-> 0]
            ELSE [nan |-> FALSE,
                  v |-> IF signed /\ s[1] = "-" THEN 0 - DigitsVal(body) ELSE DigitsVal(body)]

\* JavaScript truthiness of an optional string (a query-string value)
TruthyStr(x) == x # None /\ x[1] # <<>>

----------------------------------------------------------------------------
(* JSON values of the request body *)

JsUndefined == [t |-> "undefined", s |-> <<>>, n |-> 0]
JsNull == [t |-> "null", s |-> <<>>, n |-> 0]
JsStr(s) == [t |-> "string", s |-> s, n |-> 0]
JsNum(n) == [t |-> "number", s |-> <<>>, n |-> n]

Truthy(v) == (v.t = "string" /\ v.s # <<>>) \/ (v.t = "number" /\ v.n # 0)

\* String(v)
String(v) ==
    CASE v.t = "string" -> v.s
      [] v.t = "number" -> NatToStr(v.n)
      [] v.t = "null" -> <<"n", "u", "l", "l">>
      [] OTHER -> <<"u", "n", "d", "e", "f", "i", "n", "e", "d">>

----------------------------------------------------------------------------
(* Helpers of src/index.js *)

GidScheme == <<"g", "i", "d", ":", "/", "/">>
Shopify == <<"s", "h", "o", "p", "i", "f", "y">>
DraftOrder == <<"D", "r", "a", "f", "t", "O", "r", "d", "e", "r">>
Slash == <<"/">>
Space == <<" ">>

\* toGid without the startsWith check
toGidAlwaysWraps(type, idOrGid) ==
    GidScheme \o Shopify \o Slash \o type \o Slash \o String(idOrGid)

toGid(type, idOrGid) ==
    LET s == String(idOrGid)
    IN IF StartsWith(s, GidScheme) THEN s
       ELSE GidScheme \o Shopify \o Slash \o type \o Slash \o s

SinceTag == <<"c", "r", "e", "a", "t", "e", "d", "_", "a", "t", ":", ">", "=">>
UntilTag == <<"c", "r", "e", "a", "t", "e", "d", "_", "a", "t", ":", "<", "=">>
StatusOpen == <<"s", "t", "a", "t", "u", "s", ":", "o", "p", "e", "n">>

\* buildDraftQuery pushing the until term before the since term
buildDraftQueryUntilFirst(since, until) ==
    LET p0 == <<>>
        p1 == IF TruthyStr(until) THEN Append(p0, UntilTag \o until[1]) ELSE p0
        p2 == IF TruthyStr(since) THEN Append(p1, SinceTag \o since[1]) ELSE p1
        parts == Append(p2, StatusOpen)
    IN Join(parts, Space)

buildDraftQuery(since, until) ==
    LET p0 == <<>>
        p1 == IF TruthyStr(since) THEN Append(p0, SinceTag \o since[1]) ELSE p0
        p2 == IF TruthyStr(until) THEN Append(p1, UntilTag \o until[1]) ELSE p1
        parts == Append(p2, StatusOpen)
    IN Join(parts, Space)

DefaultFirst == 25
MaxFirst == 250

\* Number(first) || 25, without Math.min
pageSizeUncapped(first) ==
    LET n == Number(first)
    IN IF n.nan \/ n.v = 0 THEN DefaultFirst ELSE n.v

\* Math.min(Number(first) || 25, 250)
pageSize(first) ==
    LET n == Number(first)
        x == IF n.nan \/ n.v = 0 THEN DefaultFirst ELSE n.v
    IN IF x < MaxFirst THEN x ELSE MaxFirst

\* shopifyGraphQL without the check of res.data.errors
shopifyGraphQLIgnoresErrors(o) ==
    IF o.kind # "http" THEN [threw |-> TRUE, data |-> None]
    ELSE IF ~(o.status >= 200 /\ o.status < 300) THEN [threw |-> TRUE, data |-> None]
    ELSE [threw |-> FALSE, data |-> o.data]

\* How the promise of axios.post settles: a transport error, the 15 s timeout,
\* or an HTTP response with a status and a JSON body {errors, data}.
\* shopifyGraphQL either throws or returns body.data.
shopifyGraphQL(o) ==
    IF o.kind # "http" THEN [threw |-> TRUE, data |-> None]
    ELSE IF ~(o.status >= 200 /\ o.status < 300) THEN [threw |-> TRUE, data |-> None]
    ELSE IF o.errors # None THEN [threw |-> TRUE, data |-> None]
    ELSE [threw |-> FALSE, data |-> o.data]

----------------------------------------------------------------------------
(* Requests, upstream calls, responses *)

NoBody == None
NoReq == [route |-> "none", since |-> None, until |-> None, first |-> None,
          draftId |-> <<>>, body |-> NoBody]

DraftsReq(since, until, first) ==
    [NoReq EXCEPT !.route = "drafts", !.since = since, !.until = until, !.first = first]
JobReq(draftId) == [NoReq EXCEPT !.route = "jobs", !.draftId = draftId]
CompleteReq(body) == [NoReq EXCEPT !.route = "complete", !.body = body]

NoCall == [doc |-> "", first |-> 0, query |-> <<>>, id |-> <<>>, paymentPending |-> TRUE]
ListDraftsCall(first, query) ==
    [NoCall EXCEPT !.doc = "LIST_DRAFTS", !.first = first, !.query = query]
DraftForPickCall(id) == [NoCall EXCEPT !.doc = "DRAFT_FOR_PICK", !.id = id]
CompleteDraftCall(id, paymentPending) ==
    [NoCall EXCEPT !.doc = "COMPLETE_DRAFT", !.id = id, !.paymentPending = paymentPending]

NoOutcome == [kind |-> "none", status |-> 0, errors |-> None, data |-> None]

EmptyBody == [fields |-> {}, error |-> "", errors |-> <<>>, order |-> None,
              items |-> <<>>, draftId |-> "", lines |-> <<>>]
ErrorBody(msg) == [EmptyBody EXCEPT !.fields = {"error"}, !.error = msg]
ErrorsBody(errs) == [EmptyBody EXCEPT !.fields = {"errors"}, !.errors = errs]
\* {order: v}: JSON drops the key when v is undefined
OrderBody(defined, order) ==
    [EmptyBody EXCEPT !.fields = IF defined THEN {"order"} ELSE {}, !.order = order]
ItemsBody(items) == [EmptyBody EXCEPT !.fields = {"items"}, !.items = items]
JobBody(id, lines) ==
    [EmptyBody EXCEPT !.fields = {"draftId", "shippingAddress", "lines"},
                      !.draftId = id, !.lines = lines]

Response(status, body) == [status |-> status, body |-> body]

RECURSIVE Sum(_)
Sum(qs) == IF qs = <<>> THEN 0 ELSE qs[1] + Sum(Tail(qs))

\* totalLinesHint counting the line items instead of adding their quantities
totalLinesHintCount(node) == IF node.lineItems = None THEN 0 ELSE Len(node.lineItems[1])

\* node.lineItems?.edges?.reduce((n, e) => n + (e?.node?.quantity || 0), 0) || 0
totalLinesHint(node) == IF node.lineItems = None THEN 0 ELSE Sum(node.lineItems[1])

\* (data?.draftOrders?.edges || []).map(...)
draftItems(data) ==
    LET edges == IF data = None THEN <<>>
                 ELSE IF data[1].draftOrders = None THEN <<>>
                 ELSE data[1].draftOrders[1]
    IN [i \in 1..Len(edges) |->
           [id |-> edges[i].id, totalLinesHint |-> totalLinesHint(edges[i])]]

\* (d.lineItems?.edges || []).map(...)
pickLines(d) ==
    LET edges == IF d.lineItems = None THEN <<>> ELSE d.lineItems[1]
    IN [i \in 1..Len(edges) |->
           [lineItemId |-> edges[i].id,
            variantId |-> IF edges[i].variant = None THEN None
                          ELSE Some(edges[i].variant[1].id),
            title |-> IF edges[i].variant = None THEN "Unknown"
                      ELSE IF edges[i].variant[1].productTitle = None THEN "Unknown"
                      ELSE edges[i].variant[1].productTitle[1],
            qty |-> edges[i].quantity]]

----------------------------------------------------------------------------
(* How an upstream call can end *)

NetworkError == [NoOutcome EXCEPT !.kind = "network"]
AxiosTimeout == [NoOutcome EXCEPT !.kind = "timeout"]
Http(status, errors, data) ==
    [kind |-> "http", status |-> status, errors |-> errors, data |-> data]

\* transport error, timeout, non-2xx, and 2xx bodies with a top-level errors list
\* (empty, non-empty, and beside a data payload d)
Failures(d) ==
    {NetworkError, AxiosTimeout, Http(500, None, None), Http(401, Some(<<"Unauthorized">>), None),
     Http(200, Some(<<>>), None), Http(200, Some(<<"THROTTLED">>), Some(d))}

----------------------------------------------------------------------------
(* Handlers. A stretch of handler code ends by throwing, by sending a      *)
(* response, or by suspending in an upstream call.                         *)

NoResult == [kind |-> "none", status |-> 0, body |-> EmptyBody, call |-> NoCall]
Thrown == [NoResult EXCEPT !.kind = "throw"]
Sent(status, body) == [NoResult EXCEPT !.kind = "send", !.status = status, !.body = body]
Awaiting(call) == [NoResult EXCEPT !.kind = "await", !.call = call]

\* try { ... } catch (e) { res.status(status).json(body) }
TryCatch(try, status, body) == IF try.kind = "throw" THEN Sent(status, body) ELSE try

\* GET /api/pick/drafts
draftsBeforeAwait(since, until, first) ==
    Awaiting(ListDraftsCall(pageSize(first), buildDraftQuery(since, until)))

draftsAfterAwait(o) ==
    LET res == shopifyGraphQL(o)
    IN IF res.threw THEN Thrown
       ELSE Sent(200, ItemsBody(draftItems(res.data)))

draftsCatch == ErrorBody("failed to list drafts")

\* GET /api/pick/jobs/:draftId
jobBeforeAwait(draftId) == Awaiting(DraftForPickCall(toGid(DraftOrder, JsStr(draftId))))

\* the job handler without its 404 branch
jobAfterAwaitNo404(o) ==
    LET res == shopifyGraphQL(o)
        d == IF res.data = None THEN None ELSE res.data[1].draftOrder
    IN IF res.threw THEN Thrown
       ELSE IF d = None THEN Sent(200, JobBody("", <<>>))
       ELSE Sent(200, JobBody(d[1].id, pickLines(d[1])))

jobAfterAwait(o) ==
    LET res == shopifyGraphQL(o)
        d == IF res.data = None THEN None ELSE res.data[1].draftOrder
    IN IF res.threw THEN Thrown
       ELSE IF d = None THEN Sent(404, ErrorBody("Draft not found"))
       ELSE Sent(200, JobBody(d[1].id, pickLines(d[1])))

jobCatch == ErrorBody("Failed to fetch draft")

\* POST /api/pick/complete. req.body is undefined when no body was parsed, and
\* destructuring undefined throws.
completeBeforeAwait(body) ==
    IF body = NoBody THEN Thrown
    ELSE LET draftId == body[1].draftId
             paymentPending == IF body[1].paymentPending = None THEN TRUE
                               ELSE body[1].paymentPending[1]
         IN IF ~Truthy(draftId) THEN Sent(400, ErrorBody("draftId required"))
            ELSE Awaiting(CompleteDraftCall(toGid(DraftOrder, draftId), paymentPending))

\* the complete handler answering with the order whenever upstream sent one
completeAfterAwaitOrderFirst(o) ==
    LET res == shopifyGraphQL(o)
        out == IF res.data = None THEN None ELSE res.data[1].draftOrderComplete
    IN IF res.threw THEN Thrown
       ELSE IF out = None THEN Sent(200, OrderBody(FALSE, None))
       ELSE IF out[1].order # None THEN Sent(200, OrderBody(TRUE, out[1].order))
       ELSE IF Len(out[1].userErrors) # 0 THEN Sent(400, ErrorsBody(out[1].userErrors))
       ELSE Sent(200, OrderBody(TRUE, out[1].order))

completeAfterAwait(o) ==
    LET res == shopifyGraphQL(o)
        out == IF res.data = None THEN None ELSE res.data[1].draftOrderComplete
    IN IF res.threw THEN Thrown
       ELSE IF out # None /\ Len(out[1].userErrors) # 0
       THEN Sent(400, ErrorsBody(out[1].userErrors))
       ELSE IF out = None THEN Sent(200, OrderBody(FALSE, None))
       ELSE Sent(200, OrderBody(TRUE, out[1].order))

completeCatch == ErrorBody("Failed to complete draft")

----------------------------------------------------------------------------
(* State machine *)

Init ==
    /\ pc = [r \in Slots |-> "idle"]
    /\ req = [r \in Slots |-> NoReq]
    /\ calls = [r \in Slots |-> <<>>]
    /\ outcome = [r \in Slots |-> NoOutcome]
    /\ resp = [r \in Slots |-> <<>>]

\* The handler of request r runs up to its next suspension or to its end.
Run(r, result) ==
    /\ result.kind \in {"throw", "send", "await"}
    /\ pc' = [pc EXCEPT ![r] = CASE result.kind = "await" -> "awaiting"
                                 [] result.kind = "send" -> "done"
                                 [] OTHER -> "crashed"]
    /\ calls' = [calls EXCEPT ![r] = IF result.kind = "await"
                                     THEN Append(@, result.call) ELSE @]
    /\ resp' = [resp EXCEPT ![r] = IF result.kind = "send"
                                   THEN Append(@, Response(result.status, result.body))
                                   ELSE @]

GetDrafts(r, Sinces, Untils, Firsts) ==
    /\ pc[r] = "idle"
    /\ \E since \in Sinces, until \in Untils, first \in Firsts :
          /\ req' = [req EXCEPT ![r] = DraftsReq(since, until, first)]
          /\ Run(r, TryCatch(draftsBeforeAwait(since, until, first), 500, draftsCatch))
    /\ UNCHANGED outcome

GetJob(r, Ids) ==
    /\ pc[r] = "idle"
    /\ \E draftId \in Ids :
          /\ req' = [req EXCEPT ![r] = JobReq(draftId)]
          /\ Run(r, TryCatch(jobBeforeAwait(draftId), 500, jobCatch))
    /\ UNCHANGED outcome

PostComplete(r, Bodies) ==
    /\ pc[r] = "idle"
    /\ \E body \in Bodies :
          /\ req' = [req EXCEPT ![r] = CompleteReq(body)]
          /\ Run(r, TryCatch(completeBeforeAwait(body), 500, completeCatch))
    /\ UNCHANGED outcome

\* The promise of axios.post settles: Outs maps a GraphQL document to the
\* ways its call can end.
AxiosSettles(r, Outs) ==
    /\ pc[r] = "awaiting"
    /\ \E o \in Outs[calls[r][Len(calls[r])].doc] :
          outcome' = [outcome EXCEPT ![r] = o]
    /\ pc' = [pc EXCEPT ![r] = "settled"]
    /\ UNCHANGED <<req, calls, resp>>

\* the listing handler re-issuing its call once after a failure
ResumeDraftsRetry(r) ==
    /\ pc[r] = "settled"
    /\ req[r].route = "drafts"
    /\ IF shopifyGraphQL(outcome[r]).threw /\ Len(calls[r]) < 2
       THEN Run(r, Awaiting(calls[r][1]))
       ELSE Run(r, TryCatch(draftsAfterAwait(outcome[r]), 500, draftsCatch))
    /\ UNCHANGED <<req, outcome>>

ResumeDrafts(r) ==
    /\ pc[r] = "settled"
    /\ req[r].route = "drafts"
    /\ Run(r, TryCatch(draftsAfterAwait(outcome[r]), 500, draftsCatch))
    /\ UNCHANGED <<req, outcome>>

ResumeJob(r) ==
    /\ pc[r] = "settled"
    /\ req[r].route = "jobs"
    /\ Run(r, TryCatch(jobAfterAwait(outcome[r]), 500, jobCatch))
    /\ UNCHANGED <<req, outcome>>

ResumeComplete(r) ==
    /\ pc[r] = "settled"
    /\ req[r].route = "complete"
    /\ Run(r, TryCatch(completeAfterAwait(outcome[r]), 500, completeCatch))
    /\ UNCHANGED <<req, outcome>>

----------------------------------------------------------------------------
(* Upstream replies *)

Ok(d) == Http(200, None, d)

DraftNodes ==
    [id : {"a", "b"},
     lineItems : {None} \cup {Some(q) : q \in StrsUpTo({0, 1, 2}, MaxLines)}]

ListData(edges) == Some([draftOrders |-> Some(edges)])
ListReplies ==
    {Ok(None), Ok(Some([draftOrders |-> None]))}
        \cup {Ok(ListData(e)) : e \in StrsUpTo(DraftNodes, MaxEdges)}
SomeListData == ListData(<<[id |-> "a", lineItems |-> Some(<<1>>)]>>)

Variants ==
    {None, Some([id |-> "v1", productTitle |-> None]),
     Some([id |-> "v1", productTitle |-> Some("Tee")])}
LineNodes == [id : {"li"}, quantity : {1, 2}, variant : Variants]
JobOrders ==
    [id : {"gid-1"},
     lineItems : {None} \cup {Some(l) : l \in StrsUpTo(LineNodes, MaxLines)}]

JobData(d) == Some([draftOrder |-> d])
JobReplies == {Ok(None), Ok(JobData(None))} \cup {Ok(JobData(Some(d))) : d \in JobOrders}
SomeJobData == JobData(Some([id |-> "gid-1", lineItems |-> Some(<<>>)]))

UserErrs ==
    {[field |-> "id", message |-> "invalid"], [field |-> "base", message |-> "paid"]}
Orders == {None, Some([id |-> "o1", name |-> "#1001"])}
Payloads == [order : Orders, userErrors : StrsUpTo(UserErrs, MaxErrs)]

CompleteData(out) == Some([draftOrderComplete |-> out])
CompleteReplies ==
    {Ok(None), Ok(CompleteData(None))} \cup {Ok(CompleteData(Some(p))) : p \in Payloads}
SomeCompleteData ==
    CompleteData(Some([order |-> Some([id |-> "o1", name |-> "#1001"]),
                       userErrors |-> <<>>]))

----------------------------------------------------------------------------
(* Requests *)

IdPrefixes ==
    {<<>>, GidScheme, SubSeq(GidScheme, 1, 5),
     GidScheme \o Shopify \o Slash \o DraftOrder \o Slash}
Ids == {p \o s : p \in IdPrefixes, s \in StrsUpTo({"4", "/"}, MaxIdLen)}

\* a route parameter is never empty
JobIds == Ids \ {<<>>}

BodyObjects ==
    [draftId : {JsUndefined, JsNull, JsNum(0), JsNum(42)} \cup {JsStr(s) : s \in Ids},
     paymentPending : {None, Some(TRUE), Some(FALSE)}]
Bodies == {NoBody} \cup {Some(b) : b \in BodyObjects}

Sinces == {None} \cup {Some(s) : s \in StrsUpTo({"1"}, MaxDateLen)}
Untils == {None} \cup {Some(s) : s \in StrsUpTo({"9"}, MaxDateLen)}
Firsts == {None} \cup {Some(s) : s \in StrsUpTo({"0", "2", "5", "x"}, MaxFirstLen)}

----------------------------------------------------------------------------
(* Spec: NumReqs requests handled concurrently. Each request is one of a    *)
(* few, and its upstream call ends in one of a few ways.                   *)

FewOuts ==
    "LIST_DRAFTS" :> {NetworkError, AxiosTimeout, Http(500, None, None), Ok(SomeListData)}
    @@ "DRAFT_FOR_PICK" :> {NetworkError, AxiosTimeout, Http(500, None, None), Ok(SomeJobData)}
    @@ "COMPLETE_DRAFT" :> {NetworkError, AxiosTimeout, Http(500, None, None),
                            Ok(SomeCompleteData)}

FewBodies ==
    {NoBody, Some([draftId |-> JsUndefined, paymentPending |-> None]),
     Some([draftId |-> JsStr(<<"4">>), paymentPending |-> Some(FALSE)])}

Next ==
    \E r \in Slots :
        \/ GetDrafts(r, {None}, {None}, {None})
        \/ GetJob(r, {<<"4">>})
        \/ PostComplete(r, FewBodies)
        \/ AxiosSettles(r, FewOuts)
        \/ ResumeDrafts(r)
        \/ ResumeJob(r)
        \/ ResumeComplete(r)

Spec == Init /\ [][Next]_vars

\* The 15 s timeout of axios.post settles every pending call, and the event
\* loop runs the continuation of every settled promise.
Fairness ==
    \A r \in Slots :
        /\ WF_vars(AxiosSettles(r, FewOuts))
        /\ WF_vars(ResumeDrafts(r))
        /\ WF_vars(ResumeJob(r))
        /\ WF_vars(ResumeComplete(r))

FairSpec == Spec /\ Fairness

----------------------------------------------------------------------------
(* SpecInputs: one request, any input, with every way its call can fail.    *)

AllOuts ==
    "LIST_DRAFTS" :> (Failures([draftOrders |-> None]) \cup {Ok(None), Ok(SomeListData)})
    @@ "DRAFT_FOR_PICK" :> (Failures([draftOrder |-> None]) \cup JobReplies)
    @@ "COMPLETE_DRAFT" :> (Failures([draftOrderComplete |-> None]) \cup CompleteReplies)

NextInputs ==
    \/ GetDrafts(1, Sinces, Untils, Firsts)
    \/ GetJob(1, JobIds)
    \/ PostComplete(1, Bodies)
    \/ AxiosSettles(1, AllOuts)
    \/ ResumeDrafts(1)
    \/ ResumeJob(1)
    \/ ResumeComplete(1)

SpecInputs == Init /\ [][NextInputs]_vars

----------------------------------------------------------------------------
(* SpecList: one listing request, any reply.                                *)

ListOuts ==
    "LIST_DRAFTS" :> (Failures([draftOrders |-> None]) \cup ListReplies)

NextList ==
    \/ GetDrafts(1, {None}, {None}, {None, Some(<<"2">>)})
    \/ AxiosSettles(1, ListOuts)
    \/ ResumeDrafts(1)

SpecList == Init /\ [][NextList]_vars

----------------------------------------------------------------------------
(* Vocabulary of the properties *)

Finished(r) == pc[r] \in {"done", "crashed"}

\* transport error, timeout, non-2xx response, or a top-level errors list
UpstreamFails(o) ==
    \/ o.kind \in {"network", "timeout"}
    \/ o.kind = "http" /\ (o.status < 200 \/ o.status > 299 \/ o.errors # None)

UpstreamSucceeds(o) == o.kind = "http" /\ ~UpstreamFails(o)

HasNoDraftId(body) == body = NoBody \/ ~Truthy(body[1].draftId)

----------------------------------------------------------------------------
(* POST /api/pick/complete *)

\* C1: a completion request whose body has no draftId (absent, falsy, or no
\* body at all) is answered 400 {error: "draftId required"} and issues no
\* upstream call.
C1_NoDraftIdIs400 ==
    \A r \in Slots :
        pc[r] # "idle" /\ req[r].route = "complete" /\ HasNoDraftId(req[r].body)
            => /\ resp[r] = <<Response(400, ErrorBody("draftId required"))>>
               /\ calls[r] = <<>>

\* the userErrors list of a successful completion reply
UserErrorsOf(o) ==
    IF o.data = None THEN <<>>
    ELSE IF o.data[1].draftOrderComplete = None THEN <<>>
    ELSE o.data[1].draftOrderComplete[1].userErrors

OrderOf(o) ==
    IF o.data = None THEN None
    ELSE IF o.data[1].draftOrderComplete = None THEN None
    ELSE o.data[1].draftOrderComplete[1].order

\* C3: a completion whose upstream call succeeds with a non-empty userErrors
\* list is answered 400 {errors: that list}, with no order field.
C3_UserErrorsAre400 ==
    \A r \in Slots :
        /\ Finished(r) /\ req[r].route = "complete" /\ calls[r] # <<>>
        /\ UpstreamSucceeds(outcome[r]) /\ UserErrorsOf(outcome[r]) # <<>>
        => /\ Len(resp[r]) = 1
           /\ resp[r][1].status = 400
           /\ resp[r][1].body.fields = {"errors"}
           /\ resp[r][1].body.errors = UserErrorsOf(outcome[r])

C3_Witness ==
    \E r \in Slots :
        /\ pc[r] = "done" /\ req[r].route = "complete"
        /\ UpstreamSucceeds(outcome[r])
        /\ Len(UserErrorsOf(outcome[r])) = 2
        /\ UserErrorsOf(outcome[r])[1] # UserErrorsOf(outcome[r])[2]
        /\ OrderOf(outcome[r]) # None
        /\ resp[r][1].status = 400

\* C4: a completion answered 200 carries the order created upstream; a 200
\* never comes without an order object.
C4_OkHasOrder ==
    \A r \in Slots :
        pc[r] = "done" /\ req[r].route = "complete" /\ resp[r][1].status = 200
            => /\ "order" \in resp[r][1].body.fields
               /\ resp[r][1].body.order # None
               /\ resp[r][1].body.order = OrderOf(outcome[r])

----------------------------------------------------------------------------
(* Upstream failures *)

RouteError ==
    [drafts |-> "failed to list drafts", jobs |-> "Failed to fetch draft",
     complete |-> "Failed to complete draft"]

\* C2: on each data endpoint a failed upstream call ends the request with 500
\* and the route's fixed {error} body, and the handler ends by responding.
C2_UpstreamFailureIs500 ==
    \A r \in Slots :
        Finished(r) /\ calls[r] # <<>> /\ UpstreamFails(outcome[r])
            => /\ pc[r] = "done"
               /\ resp[r] = <<Response(500, ErrorBody(RouteError[req[r].route]))>>

C2_Witness ==
    \E r \in Slots :
        /\ pc[r] = "done" /\ req[r].route = "jobs"
        /\ outcome[r].kind = "http" /\ outcome[r].status = 200
        /\ outcome[r].errors = Some(<<"THROTTLED">>) /\ outcome[r].data # None
        /\ resp[r][1].status = 500

----------------------------------------------------------------------------
(* GET /api/pick/jobs/:draftId *)

DraftOrderOf(o) == IF o.data = None THEN None ELSE o.data[1].draftOrder

\* C5: a job request whose upstream call succeeds without a draft order is
\* answered 404 with an error body and no lines; a 200 job is returned only
\* when upstream returned a draft order.
C5_MissingDraftIs404 ==
    \A r \in Slots :
        Finished(r) /\ req[r].route = "jobs" =>
            /\ UpstreamSucceeds(outcome[r]) /\ DraftOrderOf(outcome[r]) = None
                => /\ Len(resp[r]) = 1
                   /\ resp[r][1].status = 404
                   /\ resp[r][1].body.fields = {"error"}
                   /\ resp[r][1].body.lines = <<>>
            /\ \A i \in 1..Len(resp[r]) :
                  resp[r][i].status = 200
                      => UpstreamSucceeds(outcome[r]) /\ DraftOrderOf(outcome[r]) # None

C5_Witness ==
    \E r \in Slots :
        /\ pc[r] = "done" /\ req[r].route = "jobs"
        /\ outcome[r] = Ok(JobData(None))
        /\ resp[r][1].status = 404

----------------------------------------------------------------------------
(* Identifier normalization *)

FullyQualified(s) == Len(s) >= 6 /\ SubSeq(s, 1, 6) = <<"g", "i", "d", ":", "/", "/">>

DraftOrderPrefix ==
    <<"g", "i", "d", ":", "/", "/", "s", "h", "o", "p", "i", "f", "y", "/",
      "D", "r", "a", "f", "t", "O", "r", "d", "e", "r", "/">>

\* the id the caller supplied, as text
SuppliedId(r) ==
    IF req[r].route = "jobs" THEN req[r].draftId ELSE String(req[r].body[1].draftId)

\* C6: the id sent upstream by the job and complete endpoints is the supplied
\* id unchanged when it is fully qualified, gid://shopify/DraftOrder/<raw>
\* otherwise, and normalizing the id sent changes nothing.
C6_IdsAreNormalized ==
    \A r \in Slots :
        req[r].route \in {"jobs", "complete"} =>
            \A i \in 1..Len(calls[r]) :
                LET raw == SuppliedId(r)
                    sent == calls[r][i].id
                IN /\ FullyQualified(raw) => sent = raw
                   /\ ~FullyQualified(raw) => sent = DraftOrderPrefix \o raw
                   /\ toGid(DraftOrder, JsStr(sent)) = sent

C6_Witness ==
    \E r \in Slots :
        /\ req[r].route = "complete" /\ calls[r] # <<>>
        /\ FullyQualified(SuppliedId(r))
        /\ Len(SuppliedId(r)) > 6
        /\ calls[r][1].id = SuppliedId(r)

----------------------------------------------------------------------------
(* GET /api/pick/drafts *)

\* the terms of a filter expression: its maximal stretches between spaces
RECURSIVE Terms(_)
Terms(s) ==
    IF \A i \in 1..Len(s) : s[i] # " " THEN <<s>>
    ELSE LET i == CHOOSE j \in 1..Len(s) : s[j] = " " /\ \A k \in 1..(j - 1) : s[k] # " "
         IN <<SubSeq(s, 1, i - 1)>> \o Terms(SubSeq(s, i + 1, Len(s)))

\* a query-string value is supplied when it is present and not empty
Supplied(x) == Len(x) = 1 /\ Len(x[1]) > 0

SinceTerm(v) == <<"c", "r", "e", "a", "t", "e", "d", "_", "a", "t", ":", ">", "=">> \o v
UntilTerm(v) == <<"c", "r", "e", "a", "t", "e", "d", "_", "a", "t", ":", "<", "=">> \o v
StatusTerm == <<"s", "t", "a", "t", "u", "s", ":", "o", "p", "e", "n">>

\* C7: the filter expression of a listing holds status:open, a created_at:>=
\* term with the since value iff since is supplied, a created_at:<= term with
\* the until value iff until is supplied, joined by single spaces in the order
\* since, until, status.
C7_FilterExpression ==
    \A r \in Slots :
        req[r].route = "drafts" =>
            \A c \in 1..Len(calls[r]) :
                LET terms == Terms(calls[r][c].query)
                    n == Len(terms)
                    since == req[r].since
                    until == req[r].until
                    hasSince == \E i \in 1..n : Len(terms[i]) >= 13
                                    /\ SubSeq(terms[i], 1, 13) = SinceTerm(<<>>)
                    hasUntil == \E i \in 1..n : Len(terms[i]) >= 13
                                    /\ SubSeq(terms[i], 1, 13) = UntilTerm(<<>>)
                IN /\ n = 1 + (IF Supplied(since) THEN 1 ELSE 0)
                            + (IF Supplied(until) THEN 1 ELSE 0)
                   /\ terms[n] = StatusTerm
                   /\ \A i \in 1..n : terms[i] # <<>>
                   /\ hasSince <=> Supplied(since)
                   /\ hasUntil <=> Supplied(until)
                   /\ Supplied(since) => terms[1] = SinceTerm(since[1])
                   /\ Supplied(until) => terms[n - 1] = UntilTerm(until[1])

C7_Witness ==
    \E r \in Slots :
        /\ req[r].route = "drafts" /\ calls[r] # <<>>
        /\ Supplied(req[r].since) /\ Supplied(req[r].until)
        /\ Len(Terms(calls[r][1].query)) = 3

\* C8: the page size sent upstream is 25 when first is absent or not a number,
\* 250 when first is a number above 250, and never above 250.
C8_PageSize ==
    \A r \in Slots :
        req[r].route = "drafts" =>
            \A c \in 1..Len(calls[r]) :
                LET first == req[r].first
                    sent == calls[r][c].first
                IN /\ first = None \/ Number(first).nan => sent = 25
                   /\ first # None /\ ~Number(first).nan /\ Number(first).v > 250
                          => sent = 250
                   /\ sent <= 250

C8_Witness ==
    \E r \in Slots :
        /\ req[r].route = "drafts" /\ calls[r] # <<>>
        /\ req[r].first = Some(<<"2", "5", "2">>)
        /\ calls[r][1].first = 250

\* the order edges of a successful listing reply
EdgesOf(o) ==
    IF o.data = None THEN <<>>
    ELSE IF o.data[1].draftOrders = None THEN <<>>
    ELSE o.data[1].draftOrders[1]

RECURSIVE QuantitiesUpTo(_, _)
QuantitiesUpTo(qs, k) == IF k = 0 THEN 0 ELSE QuantitiesUpTo(qs, k - 1) + qs[k]

\* C9: a listing whose upstream call succeeds with N order edges is answered
\* 200 with N summaries in the order of the edges, each totalLinesHint the sum
\* of the quantities of the order's returned line items, 0 when there are none.
C9_Summaries ==
    \A r \in Slots :
        Finished(r) /\ req[r].route = "drafts" /\ UpstreamSucceeds(outcome[r]) =>
            LET edges == EdgesOf(outcome[r])
            IN /\ Len(resp[r]) = 1
               /\ resp[r][1].status = 200
               /\ resp[r][1].body.fields = {"items"}
               /\ Len(resp[r][1].body.items) = Len(edges)
               /\ \A i \in 1..Len(edges) :
                     LET item == resp[r][1].body.items[i]
                         li == edges[i].lineItems
                     IN /\ item.id = edges[i].id
                        /\ item.totalLinesHint =
                              IF li = None THEN 0 ELSE QuantitiesUpTo(li[1], Len(li[1]))

C9_Witness ==
    \E r \in Slots :
        /\ pc[r] = "done" /\ req[r].route = "drafts" /\ UpstreamSucceeds(outcome[r])
        /\ Len(EdgesOf(outcome[r])) = 2
        /\ EdgesOf(outcome[r])[1].id = "b" /\ EdgesOf(outcome[r])[2].id = "a"
        /\ resp[r][1].body.items[1].totalLinesHint = 2
        /\ resp[r][1].body.items[2].totalLinesHint = 0

----------------------------------------------------------------------------
(* Concurrent requests *)

PassesInputCheck(r) ==
    req[r].route \in {"drafts", "jobs"}
        \/ (req[r].route = "complete" /\ ~HasNoDraftId(req[r].body))

OneCallOneResponse ==
    \A r \in Slots :
        /\ Len(calls[r]) <= 1
        /\ Len(resp[r]) <= 1
        /\ pc[r] # "idle" => (Len(calls[r]) = 1 <=> PassesInputCheck(r))
        /\ resp[r] # <<>> /\ calls[r] # <<>> => outcome[r].kind # "none"
        /\ pc[r] # "crashed"

\* C10: under any interleaving, a request issues at most one upstream call
\* (exactly one when it passes the input check), never re-issues it, and gets
\* exactly one response, sent only after its own call has settled.
C10_OneCallOneResponse ==
    /\ []OneCallOneResponse
    /\ \A r \in Slots : (pc[r] # "idle") ~> (pc[r] = "done" /\ Len(resp[r]) = 1)

C10_Witness ==
    \E r1, r2 \in Slots :
        /\ pc[r1] = "awaiting" /\ req[r1].route = "complete"
        /\ pc[r2] = "done" /\ calls[r2] # <<>> /\ UpstreamFails(outcome[r2])

====
